---- MODULE Spec2Model ----
(***************************************************************************)
(* A model of the GSAP convenience library js/general-utils.js (and of its *)
(* older copy, which holds a subset of the same functions).                *)
(*                                                                         *)
(* Three independent parts of the library are modelled, each with its own  *)
(* specification over the shared variables:                                *)
(*   TimelineSpec  the helpers that append segments to a caller's timeline *)
(*   LoaderSpec    loadSVG: fetch, read the body, write the DOM, call back *)
(*   DomSpec       bringToFront on the children of two parents             *)
(*                                                                         *)
(* Times are counted in half-seconds (the code's durations are 0.5, 1 and  *)
(* 1.5 seconds), so a duration of 1.5 s is 3 and a delay of 1 s is 2.      *)
(* Position tokens are the strings the code builds.                        *)
(***************************************************************************)
EXTENDS Integers, Sequences, FiniteSets, TLC

VARIABLES
    timeline,    \* the caller's timeline: its segments, in the order added
    callLog,     \* the helper calls made on the timeline, in order
    lastOp,      \* the operation that ran last, its inputs and what it returned
    calls,       \* the loadSVG calls made, in order, and how far each has got
    containers,  \* the content and the position set in each container element
    completed,   \* the loadSVG calls whose content was written, in that order
    children     \* the child list of each parent element

vars == <<timeline, callLog, lastOp, calls, containers, completed, children>>

\* ------------------------------------------------------------------ bounds

MaxSegs == 3
MaxLights == 3
MaxDelay == 2
MaxOffset == 2
MaxCalls == 2

\* ------------------------------------------------------- values of the code

\* What a JavaScript function without a return statement returns.
Undefined == "undefined"

\* moveAlong's default position argument.
Null == "null"

\* ---------------------------------------------- position-string encoders

\* (without the zero case)
startWithPrevious_alwaysOffset(secondsOffset) ==
    "<" \o ToString(secondsOffset)

startWithPrevious(secondsOffset) ==
    IF secondsOffset = 0 THEN "<" ELSE "<" \o ToString(secondsOffset)

\* (the other encoder's token)
startAfterPrevious_asWith(secondsOffset) ==
    IF secondsOffset = 0 THEN "<" ELSE "<" \o ToString(secondsOffset)

startAfterPrevious(secondsOffset) ==
    IF secondsOffset = 0 THEN "+=0" ELSE "+=" \o ToString(secondsOffset)

\* ------------------------------------------- the timeline engine (external)

\* The decimal digits of a position token's offset, read as a number.
DigitValue(c) ==
    CASE c = "0" -> 0 [] c = "1" -> 1 [] c = "2" -> 2 [] c = "3" -> 3
      [] c = "4" -> 4 [] c = "5" -> 5 [] c = "6" -> 6 [] c = "7" -> 7
      [] c = "8" -> 8 [] c = "9" -> 9

RECURSIVE ParseNat(_)
ParseNat(s) ==
    IF Len(s) = 0 THEN 0
    ELSE 10 * ParseNat(SubSeq(s, 1, Len(s) - 1)) + DigitValue(SubSeq(s, Len(s), Len(s)))

\* A tween that repeats forever has no end: the engine gives it a total
\* duration larger than any time a timeline of this model reaches.
Unbounded == 2 * 10 ^ 8

\* A tween's total duration: its duration, once more for every repeat.
TotalDuration(v) ==
    LET repeat == IF "repeat" \in DOMAIN v THEN v.repeat ELSE 0
    IN  IF repeat < 0 THEN Unbounded ELSE v.duration * (repeat + 1)

SegEnd(seg) == seg.start + TotalDuration(seg.vars)

RECURSIVE MaxEnd(_)
MaxEnd(tl) ==
    IF tl = <<>> THEN 0
    ELSE LET rest == MaxEnd(Tail(tl))
             e == SegEnd(Head(tl))
         IN  IF e > rest THEN e ELSE rest

\* The end of the timeline: where a segment without a position is put.
TimelineEnd(tl) == MaxEnd(tl)

\* The start of the segment added last (0 in an empty timeline).
RecentStart(tl) == IF tl = <<>> THEN 0 ELSE tl[Len(tl)].start

\* The start time a position resolves to: absent, it is the end of the
\* timeline; "+=n" is n seconds past the end of the timeline; "<" is the
\* start of the segment added last and "<n" is n seconds after that.
ResolvePosition(tl, position) ==
    IF position \in {Null, Undefined} THEN TimelineEnd(tl)
    ELSE IF SubSeq(position, 1, 1) = "<"
         THEN RecentStart(tl) + 2 * ParseNat(SubSeq(position, 2, Len(position)))
    ELSE TimelineEnd(tl) + 2 * ParseNat(SubSeq(position, 3, Len(position)))

\* timeline.to(target, vars, position): one more segment at the back.
To(tl, target, v, position) ==
    Append(tl, [target |-> target, vars |-> v, position |-> position,
                start |-> ResolvePosition(tl, position)])

\* --------------------------------------------- timeline choreography helpers
\* Each helper is given the timeline and returns what the function returns;
\* `tl` is the timeline as the call leaves it.

spinTheThings(tl, duration) ==
    [tl |-> To(tl, ".spinnable",
               [duration |-> 2 * duration, rotation |-> "+=360",
                transformOrigin |-> "50% 50%", ease |-> "linear", repeat |-> -1],
               Undefined),
     ret |-> Undefined]

openDoorLeft(tl, doorId) ==
    [tl |-> To(tl, doorId,
               [duration |-> 3, x |-> "0%", scaleX |-> 0,
                transformOrigin |-> "left center", ease |-> "power2.out"],
               Undefined),
     ret |-> Undefined]

\* The position of the light at `index` (from 0): "+=" and delay * index.
LightPosition(delay, index) == "+=" \o ToString(delay * index)

RECURSIVE LightsFrom(_, _, _, _)
LightsFrom(tl, lights, delay, index) ==
    IF index >= Len(lights) THEN tl
    ELSE LightsFrom(To(tl, lights[index + 1],
                       [attr |-> [fill |-> "green"], duration |-> 1, ease |-> "none"],
                       LightPosition(delay, index)),
                    lights, delay, index + 1)

switchLights(lights, tl, delay) ==
    [tl |-> LightsFrom(tl, lights, delay, 0), ret |-> Undefined]

moveAlong(tl, elementId, pathId, position, repeat) ==
    [tl |-> To(tl, elementId,
               [duration |-> 2, ease |-> "power1.inOut",
                motionPath |-> [path |-> pathId, align |-> pathId,
                                alignOrigin |-> <<1, 1>>],
                repeat |-> repeat],
               position),
     ret |-> Undefined]

moveOnPath(tl, id, path, duration, withPrevious) ==
    LET position == IF withPrevious THEN "<" ELSE "+=0"
    IN  [tl |-> To(tl, id,
                   [motionPath |-> [path |-> path, align |-> path,
                                    alignOrigin |-> <<1, 1>>, autoRotate |-> FALSE],
                    duration |-> 2 * duration, ease |-> "power1.inOut"],
                   position),
         ret |-> Undefined]

\* (the completion notice as a tween of its own)
zoomTo_twoTweens(tl, id, viewBoxParams) ==
    [tl |-> To(To(tl, id,
                  [duration |-> 2, attr |-> [viewBox |-> viewBoxParams],
                   ease |-> "power3.inOut"],
                  Undefined),
               id, [duration |-> 0, onComplete |-> "log Zoom completed"], Undefined),
     ret |-> Undefined]

zoomTo(tl, id, viewBoxParams) ==
    [tl |-> To(tl, id,
               [duration |-> 2, attr |-> [viewBox |-> viewBoxParams],
                ease |-> "power3.inOut", onComplete |-> "log Zoom completed"],
               Undefined),
     ret |-> Undefined]

\* ------------------------------------------------------- the callers' inputs

Doors == {"#door1"}
Movers == {"#cart"}
Paths == {"#path1"}
Svgs == {"#map"}
ViewBoxes == {"0 0 100 100", "10 10 50 50"}
Seconds == {1, 2}

Light(i) == "#light" \o ToString(i)

\* The lists of light selectors a caller passes: the first k lights in
\* order, and the first two the other way round.
LightLists == {[i \in 1..k |-> Light(i)] : k \in 0..MaxLights}
                  \cup {<<Light(2), Light(1)>>}

\* When a caller of moveAlong wants the segment to start: where the helper
\* puts it by default, or with or after the previous segment, n seconds off.
Intents == {<<"default", 0>>} \cup ({"with", "after"} \X (0..MaxOffset))

\* The position the caller passes for that: none, or an encoder's token.
PositionFor(intent) ==
    CASE intent[1] = "default" -> Null
      [] intent[1] = "with" -> startWithPrevious(intent[2])
      [] intent[1] = "after" -> startAfterPrevious(intent[2])

\* ------------------------------------------------------- timeline actions

LoaderIdle == UNCHANGED <<calls, containers, completed>>
DomIdle == UNCHANGED children
TimelineIdle == UNCHANGED <<timeline, callLog>>

\* A helper call `name(args)` that returned r: the timeline is the caller's
\* own object, so what the helper did to it is what the caller sees.
\* `intent` is what the caller meant by the position it passed, if any.
Called(name, args, intent, r) ==
    /\ timeline' = r.tl
    /\ callLog' = Append(callLog, [name |-> name, args |-> args, intent |-> intent])
    /\ lastOp' = [name |-> name, args |-> args, ret |-> r.ret,
                  endBefore |-> TimelineEnd(timeline)]
    /\ LoaderIdle /\ DomIdle

Room(n) == Len(callLog) < MaxSegs /\ Len(timeline) + n <= MaxSegs

OpenDoorLeft ==
    /\ Room(1)
    /\ \E doorId \in Doors :
         Called("openDoorLeft", <<doorId>>, <<>>, openDoorLeft(timeline, doorId))

SpinTheThings ==
    /\ Room(1)
    /\ \E duration \in Seconds :
         Called("spinTheThings", <<duration>>, <<>>, spinTheThings(timeline, duration))

SwitchLights ==
    \E lights \in LightLists, delay \in 0..MaxDelay :
        /\ Room(Len(lights))
        /\ Called("switchLights", <<lights, delay>>, <<>>,
                  switchLights(lights, timeline, delay))

MoveAlong ==
    /\ Room(1)
    /\ \E elementId \in Movers, pathId \in Paths, intent \in Intents,
          repeat \in {0, 1} :
         LET position == PositionFor(intent)
         IN  Called("moveAlong", <<elementId, pathId, position, repeat>>, intent,
                    moveAlong(timeline, elementId, pathId, position, repeat))

MoveOnPath ==
    /\ Room(1)
    /\ \E id \in Movers, path \in Paths, duration \in Seconds,
          withPrevious \in BOOLEAN :
         Called("moveOnPath", <<id, path, duration, withPrevious>>, <<>>,
                moveOnPath(timeline, id, path, duration, withPrevious))

ZoomTo ==
    /\ Room(1)
    /\ \E id \in Svgs, viewBoxParams \in ViewBoxes :
         Called("zoomTo", <<id, viewBoxParams>>, <<>>,
                zoomTo(timeline, id, viewBoxParams))

\* ------------------------------------------------------------- the SVG loader

\* The pages' container elements, and the ids a caller may name: "ghost" is
\* the id of no element.
ContainerIds == {"stage"}
Targets == ContainerIds \cup {"ghost"}

Urls == {"cart.svg", "door.svg"}
Coords == {<<0, 0>>, <<10, 20>>}

\* What the server sends for a URL.
Body(url) == "<svg>" \o url \o "</svg>"

\* What a container holds before anything is loaded into it, and the
\* position of an svg root that has none set (or is not there).
Placeholder == "<p>loading</p>"
NoPosition == "none"

\* A loadSVG call that has just been made: its fetch is under way.
NewCall(url, target, x, y, callback) ==
    [url |-> url, target |-> target, x |-> x, y |-> y, callback |-> callback,
     phase |-> "fetching", reason |-> "", errors |-> 0,
     cbCalls |-> 0, cbArgs |-> <<>>, cbSaw |-> <<>>]

\* .catch((error) => console.error(...)): one error is logged and the
\* chain ends; nothing else is touched.
\* (an empty catch)
CatchHandler_silent(ctrs, call, reason) ==
    [containers |-> ctrs,
     call |-> [call EXCEPT !.phase = "failed", !.reason = reason]]

\* (a catch that also clears the target)
CatchHandler_blanks(ctrs, call, reason) ==
    [containers |-> [t \in DOMAIN ctrs |->
                        IF t = call.target
                        THEN [content |-> "", svgAt |-> NoPosition]
                        ELSE ctrs[t]],
     call |-> [call EXCEPT !.phase = "failed", !.reason = reason,
                           !.errors = @ + 1]]

CatchHandler(ctrs, call, reason) ==
    [containers |-> ctrs,
     call |-> [call EXCEPT !.phase = "failed", !.reason = reason,
                           !.errors = @ + 1]]

\* The second .then: getElementById(target).innerHTML = svg throws when
\* there is no such element, and the chain goes to the catch; otherwise
\* the content is replaced, gsap.set positions the svg now inside the
\* container, and then the callback, if there is one, is called with no
\* arguments. cbSaw is the container as the callback finds it.
\* (the callback called first)
ThenHandler_callbackFirst(ctrs, call, svg) ==
    LET called == IF call.callback
                  THEN [call EXCEPT !.cbCalls = @ + 1, !.cbArgs = <<>>,
                                    !.cbSaw = IF call.target \in DOMAIN ctrs
                                              THEN ctrs[call.target] ELSE <<>>]
                  ELSE call
    IN  IF call.target \notin DOMAIN ctrs
        THEN CatchHandler(ctrs, called, "target")
        ELSE LET t == call.target
             IN  [containers |-> [ctrs EXCEPT ![t].content = svg,
                                              ![t].svgAt = <<call.x, call.y>>],
                  call |-> [called EXCEPT !.phase = "written"]]

\* (innerHTML += svg)
ThenHandler_appends(ctrs, call, svg) ==
    IF call.target \notin DOMAIN ctrs
    THEN CatchHandler(ctrs, call, "target")
    ELSE LET t == call.target
             placed == [ctrs EXCEPT ![t].content = @ \o svg,
                                    ![t].svgAt = <<call.x, call.y>>]
         IN  [containers |-> placed,
              call |-> IF call.callback
                       THEN [call EXCEPT !.phase = "written", !.cbCalls = @ + 1,
                                         !.cbArgs = <<>>, !.cbSaw = placed[t]]
                       ELSE [call EXCEPT !.phase = "written"]]

ThenHandler(ctrs, call, svg) ==
    IF call.target \notin DOMAIN ctrs
    THEN CatchHandler(ctrs, call, "target")
    ELSE LET t == call.target
             set == [ctrs EXCEPT ![t].content = svg, ![t].svgAt = NoPosition]
             placed == [set EXCEPT ![t].svgAt = <<call.x, call.y>>]
         IN  [containers |-> placed,
              call |-> IF call.callback
                       THEN [call EXCEPT !.phase = "written", !.cbCalls = @ + 1,
                                         !.cbArgs = <<>>, !.cbSaw = placed[t]]
                       ELSE [call EXCEPT !.phase = "written"]]

TimelineAndDomIdle == TimelineIdle /\ DomIdle

\* loadSVG(url, target, x, y, callback) of general-utils.js: the fetch
\* is started and the function returns.
LoadSVG ==
    /\ Len(calls) < MaxCalls
    /\ \E url \in Urls, target \in Targets, xy \in Coords, callback \in BOOLEAN :
         /\ calls' = Append(calls, NewCall(url, target, xy[1], xy[2], callback))
         /\ lastOp' = [name |-> "loadSVG", call |-> Len(calls) + 1, ret |-> Undefined]
    /\ UNCHANGED <<containers, completed>>
    /\ TimelineAndDomIdle

\* loadSVG(url, target, x, y) of the older copy, which takes no callback.
LoadSVGOld ==
    /\ Len(calls) < MaxCalls
    /\ \E url \in Urls, target \in Targets, xy \in Coords :
         /\ calls' = Append(calls, NewCall(url, target, xy[1], xy[2], FALSE))
         /\ lastOp' = [name |-> "loadSVG", call |-> Len(calls) + 1, ret |-> Undefined]
    /\ UNCHANGED <<containers, completed>>
    /\ TimelineAndDomIdle

\* fetch(url) resolves and the first .then asks for the body.
FetchResolvesOf(i) ==
    /\ calls[i].phase = "fetching"
    /\ calls' = [calls EXCEPT ![i].phase = "reading"]
    /\ lastOp' = [name |-> "fetchResolved", call |-> i]
    /\ UNCHANGED <<containers, completed>>
    /\ TimelineAndDomIdle

FetchResolves == \E i \in 1..Len(calls) : FetchResolvesOf(i)

\* fetch(url) rejects: both .then are skipped and the catch runs.
FetchRejects ==
    \E i \in 1..Len(calls) :
        /\ calls[i].phase = "fetching"
        /\ LET r == CatchHandler(containers, calls[i], "fetch")
           IN  /\ calls' = [calls EXCEPT ![i] = r.call]
               /\ containers' = r.containers
        /\ lastOp' = [name |-> "fetchRejected", call |-> i]
        /\ UNCHANGED completed
        /\ TimelineAndDomIdle

\* response.text() resolves with the body and the second .then runs.
BodyReadOf(i) ==
    /\ calls[i].phase = "reading"
    /\ LET r == ThenHandler(containers, calls[i], Body(calls[i].url))
       IN  /\ calls' = [calls EXCEPT ![i] = r.call]
           /\ containers' = r.containers
           /\ completed' = IF r.call.phase = "written"
                           THEN Append(completed, i) ELSE completed
    /\ lastOp' = [name |-> "bodyRead", call |-> i]
    /\ TimelineAndDomIdle

BodyRead == \E i \in 1..Len(calls) : BodyReadOf(i)

\* response.text() rejects: the second .then is skipped and the catch runs.
BodyFails ==
    \E i \in 1..Len(calls) :
        /\ calls[i].phase = "reading"
        /\ LET r == CatchHandler(containers, calls[i], "body")
           IN  /\ calls' = [calls EXCEPT ![i] = r.call]
               /\ containers' = r.containers
        /\ lastOp' = [name |-> "bodyFailed", call |-> i]
        /\ UNCHANGED completed
        /\ TimelineAndDomIdle

\* ------------------------------------------------------------ bringToFront

\* The page: two parent elements and their children, back to front.
Page == [layerA |-> <<"a1", "a2", "a3", "a4">>, layerB |-> <<"b1", "b2", "b3">>]

\* The ids a caller may name: every child, and "nobody", the id of no element.
ElementIds == {"a1", "a2", "a3", "a4", "b1", "b2", "b3", "nobody"}

InSeq(s, e) == \E k \in 1..Len(s) : s[k] = e

\* document.getElementById(elementId).parentNode: the parent whose child
\* the element is, or none when there is no such element.
ParentsOf(ch, elementId) == {p \in DOMAIN ch : InSeq(ch[p], elementId)}

Without(s, e) == SelectSeq(s, LAMBDA c : c # e)

\* parent.appendChild(element): the element leaves its place and becomes
\* the last child.
AppendChild(s, element) == Append(Without(s, element), element)

\* (the element changes places with its next sibling only)
OneStepForward(s, element) ==
    LET k == CHOOSE j \in 1..Len(s) : s[j] = element
    IN  IF k = Len(s) THEN s
        ELSE [j \in 1..Len(s) |-> IF j = k THEN s[k + 1]
                                  ELSE IF j = k + 1 THEN s[k] ELSE s[j]]

bringToFront_oneStep(ch, elementId) ==
    IF ParentsOf(ch, elementId) = {}
    THEN [children |-> ch, threw |-> TRUE, ret |-> Undefined]
    ELSE LET p == CHOOSE q \in ParentsOf(ch, elementId) : TRUE
         IN  [children |-> [ch EXCEPT ![p] = OneStepForward(ch[p], elementId)],
              threw |-> FALSE, ret |-> Undefined]

\* bringToFront(elementId): with no such element, reading parentNode of
\* null throws and nothing is moved.
bringToFront(ch, elementId) ==
    IF ParentsOf(ch, elementId) = {}
    THEN [children |-> ch, threw |-> TRUE, ret |-> Undefined]
    ELSE LET p == CHOOSE q \in ParentsOf(ch, elementId) : TRUE
         IN  [children |-> [ch EXCEPT ![p] = AppendChild(ch[p], elementId)],
              threw |-> FALSE, ret |-> Undefined]

\* Whether an even or an odd number of bringToFront calls have been made
\* (it tells a call from the one before it), and the id the call before
\* was given.
Turn(op) == IF "turn" \in DOMAIN op THEN op.turn ELSE 0
IdOf(op) == IF "id" \in DOMAIN op THEN op.id ELSE ""

BringToFront ==
    \E elementId \in ElementIds :
        LET r == bringToFront(children, elementId)
        IN  /\ children' = r.children
            /\ lastOp' = [name |-> "bringToFront", id |-> elementId,
                          threw |-> r.threw, ret |-> r.ret,
                          turn |-> 1 - Turn(lastOp), previous |-> IdOf(lastOp)]
            /\ LoaderIdle /\ TimelineIdle

Init ==
    /\ timeline = <<>>
    /\ callLog = <<>>
    /\ lastOp = [name |-> "none"]
    /\ calls = <<>>
    /\ containers = [t \in ContainerIds |->
                        [content |-> Placeholder, svgAt |-> NoPosition]]
    /\ completed = <<>>
    /\ children = Page

TimelineNext ==
    \/ OpenDoorLeft
    \/ SpinTheThings
    \/ SwitchLights
    \/ MoveAlong
    \/ MoveOnPath
    \/ ZoomTo

TimelineSpec == Init /\ [][TimelineNext]_vars

LoaderNext ==
    \/ LoadSVG
    \/ LoadSVGOld
    \/ FetchResolves
    \/ FetchRejects
    \/ BodyRead
    \/ BodyFails

LoaderSpec == Init /\ [][LoaderNext]_vars

DomNext == BringToFront

DomSpec == Init /\ [][DomNext]_vars

\* ------------------------------------------------------------------ claims

AppendingHelpers == {"openDoorLeft", "spinTheThings", "moveAlong", "zoomTo"}

AnimationMethods == AppendingHelpers \cup {"switchLights", "moveOnPath"}

\* The target of the segment a helper call adds.
CalledOn(op) == IF op.name = "spinTheThings" THEN ".spinnable" ELSE op.args[1]

\* The segments a switchLights call added: the last Len(lights) of the timeline.
LightSegment(i) == timeline[Len(timeline) - Len(lastOp.args[1]) + i]

\* C1: switchLights adds one segment per selector, in index order, and the
\* segment of index i starts delay * i seconds after the end the timeline
\* had when switchLights was called.
C1_LightsStartAtDelayTimesIndex ==
    lastOp.name = "switchLights" =>
        LET lights == lastOp.args[1]
            delay == lastOp.args[2]
        IN  /\ Len(timeline) >= Len(lights)
            /\ \A i \in 1..Len(lights) :
                 /\ LightSegment(i).target = lights[i]
                 /\ LightSegment(i).start = lastOp.endBefore + 2 * delay * (i - 1)

Doomed(c) == c.phase = "failed" \/ c.target \notin ContainerIds

\* C2: a loadSVG call whose fetch failed, whose body could not be read or
\* whose target is no element never has its callback invoked, and once it
\* has failed exactly one error has been logged for it.
C2_FailureLogsOnceNoCallback ==
    \A i \in 1..Len(calls) :
        Doomed(calls[i]) =>
            /\ calls[i].cbCalls = 0
            /\ calls[i].phase # "written"
            /\ calls[i].phase = "failed" => calls[i].errors = 1
            /\ calls[i].phase # "failed" => calls[i].errors = 0

C2_Witness ==
    \E i, j \in 1..Len(calls) :
        /\ calls[i].phase = "failed" /\ calls[i].reason = "fetch" /\ calls[i].callback
        /\ calls[j].phase = "failed" /\ calls[j].reason = "target" /\ calls[j].callback

CompletedBy(i) ==
    LET c == calls'[i]
    IN  /\ containers'[c.target].content = Body(c.url)
        /\ containers'[c.target].svgAt = <<c.x, c.y>>

CallbackRan(c) ==
    IF c.callback
    THEN /\ c.cbCalls = 1
         /\ c.cbArgs = <<>>
         /\ c.cbSaw = [content |-> Body(c.url), svgAt |-> <<c.x, c.y>>]
    ELSE c.cbCalls = 0

\* C3: when a loadSVG call's body has been read and its target exists, the
\* step that completes it leaves the container holding exactly the fetched
\* markup with its svg at (x, y); a callback, if given, has then been called
\* once, with no arguments, and found the content and the position in
\* place, and without a callback none is called.
C3_SuccessSetsContentPositionThenCallback ==
    /\ [][\A i \in 1..Len(calls) :
            (calls[i].phase = "reading" /\ calls'[i].phase = "written")
                => CompletedBy(i)]_vars
    /\ [](\A i \in 1..Len(calls) :
            /\ calls[i].phase = "written" => CallbackRan(calls[i])
            /\ calls[i].cbCalls > 0 => calls[i].phase = "written")

C3_Witness ==
    \E i, j \in 1..Len(calls) :
        /\ calls[i].phase = "written" /\ calls[i].callback
        /\ calls[j].phase = "written" /\ ~calls[j].callback
        /\ completed = <<i, j>>
        /\ calls[i].url # calls[j].url
        /\ <<calls[i].x, calls[i].y>> # <<calls[j].x, calls[j].y>>

RECURSIVE LastFor(_, _)
LastFor(done, t) ==
    IF done = <<>> THEN 0
    ELSE IF calls[done[Len(done)]].target = t THEN done[Len(done)]
    ELSE LastFor(SubSeq(done, 1, Len(done) - 1), t)

LastCompletionWins ==
    \A t \in ContainerIds :
        IF LastFor(completed, t) = 0
        THEN containers[t].content = Placeholder
        ELSE containers[t].content = Body(calls[LastFor(completed, t)].url)

NothingCancelled ==
    /\ Len(calls') >= Len(calls)
    /\ lastOp'.name = "loadSVG" =>
          /\ Len(calls') = Len(calls) + 1
          /\ SubSeq(calls', 1, Len(calls)) = calls
    /\ \A i \in 1..Len(calls) :
          calls'[i] # calls[i] =>
              /\ lastOp'.name \in {"fetchResolved", "fetchRejected",
                                   "bodyRead", "bodyFailed"}
              /\ lastOp'.call = i

\* C4: with several loadSVG calls to one target in flight, the container
\* holds exactly the markup of the call that completed last, whichever was
\* issued last; and no call is cancelled or merged with another: every
\* call is a call of its own, and a call's progress changes only by its
\* own fetch.
C4_LastCompletionWins ==
    /\ [](LastCompletionWins)
    /\ [][NothingCancelled]_vars
    /\ [](\A i \in 1..Len(calls) :
            /\ calls[i].phase = "fetching" => ENABLED FetchResolvesOf(i)
            /\ calls[i].phase = "reading" => ENABLED BodyReadOf(i))

\* Two calls to one target for different URLs, both in flight together;
\* the call issued first completed last and its markup is what the
\* container holds.
C4_Witness ==
    /\ Len(calls) >= 2
    /\ calls[1].target = "stage" /\ calls[2].target = "stage"
    /\ calls[1].url # calls[2].url
    /\ completed = <<2, 1>>
    /\ containers["stage"].content = Body(calls[1].url)

DoorThenCart ==
    /\ Len(callLog) = 2
    /\ callLog[1].name = "openDoorLeft" /\ callLog[1].args = <<"#door1">>
    /\ callLog[2].name = "moveAlong"
    /\ callLog[2].args = <<"#cart", "#path1", startWithPrevious(0), 0>>
    /\ callLog[2].intent = <<"with", 0>>

\* C5: on an empty timeline, openDoorLeft(tl, "#door1") and then
\* moveAlong(tl, "#cart", "#path1", startWithPrevious()) leave two segments
\* in call order; the second carries the token "<" and starts when the
\* first starts.
C5_DoorThenCartStartTogether ==
    DoorThenCart =>
        /\ Len(timeline) = 2
        /\ timeline[1].target = "#door1" /\ timeline[1].vars.scaleX = 0
        /\ timeline[2].target = "#cart" /\ timeline[2].vars.motionPath.path = "#path1"
        /\ timeline[2].position = "<"
        /\ timeline[2].start = timeline[1].start

C5_Witness == DoorThenCart /\ Len(timeline) = 2

\* C6: a call of openDoorLeft, spinTheThings, moveAlong or zoomTo adds
\* exactly one segment at the back and leaves the segments already there
\* as they were.
C6_AppendsOneKeepsRest ==
    [][lastOp'.name \in AppendingHelpers =>
          /\ Len(timeline') = Len(timeline) + 1
          /\ SubSeq(timeline', 1, Len(timeline)) = timeline
          /\ timeline'[Len(timeline')].target = CalledOn(lastOp')]_vars

C6_Witness ==
    /\ Len(timeline) = 3
    /\ callLog[1].name = "openDoorLeft"
    /\ callLog[2].name = "moveAlong"
    /\ lastOp.name = "zoomTo"
    /\ timeline[3].target = "#map"

EncoderCalls == {i \in 1..Len(callLog) : callLog[i].intent # <<>>
                                         /\ callLog[i].intent[1] # "default"}

TokenOf(i) == callLog[i].args[3]

\* C7: with offset 0 each encoder gives its bare token, "<" and "+=0", and
\* with any other offset a different one; and for one offset the two
\* encoders never give the same token.
C7_EncodersDistinct ==
    /\ \A i \in EncoderCalls :
          /\ callLog[i].intent[1] = "with" =>
                (callLog[i].intent[2] = 0 <=> TokenOf(i) = "<")
          /\ callLog[i].intent[1] = "after" =>
                (callLog[i].intent[2] = 0 <=> TokenOf(i) = "+=0")
    /\ \A i, j \in EncoderCalls :
          (/\ callLog[i].intent[1] # callLog[j].intent[1]
           /\ callLog[i].intent[2] = callLog[j].intent[2])
              => TokenOf(i) # TokenOf(j)

C7_Witness ==
    \E i, j, k \in EncoderCalls :
        /\ callLog[i].intent = <<"with", 2>>
        /\ callLog[j].intent = <<"after", 2>>
        /\ callLog[k].intent = <<"after", 0>>

Moved(p, e) ==
    /\ children'[p][Len(children'[p])] = e
    /\ Len(children'[p]) = Len(children[p])
    /\ Without(children'[p], e) = Without(children[p], e)
    /\ \A q \in DOMAIN children : q # p => children'[q] = children[q]

\* C8: bringToFront(id) makes the element the last child of its parent,
\* keeping the other children in their order and every child list as long
\* as it was; called again at once with the same id it changes nothing.
C8_BringToFrontIdempotent ==
    [][(lastOp'.name = "bringToFront" /\ Turn(lastOp') # Turn(lastOp)) =>
          /\ \A p \in ParentsOf(children, lastOp'.id) : Moved(p, lastOp'.id)
          /\ lastOp'.threw <=> ParentsOf(children, lastOp'.id) = {}
          /\ lastOp'.threw => children' = children
          /\ lastOp'.previous = lastOp'.id => children' = children]_vars

C8_Witness ==
    /\ lastOp.name = "bringToFront"
    /\ lastOp.id = "a1" /\ lastOp.previous = "a1"
    /\ children.layerA = <<"a3", "a2", "a4", "a1">>

\* C9: every animation method works on the caller's own timeline (what it
\* adds is there when it returns) and returns a timeline to its caller.
C9_MethodsReturnTimeline ==
    lastOp.name \in AnimationMethods =>
        /\ lastOp.name # "switchLights" =>
              /\ timeline # <<>>
              /\ timeline[Len(timeline)].target = CalledOn(lastOp)
        /\ lastOp.ret # Undefined

\* C10: a loadSVG call whose fetch rejects or whose body cannot be read
\* leaves every container, content and position, as it was, then and
\* afterwards: it is never among the calls that wrote.
C10_FailedLoadLeavesContainer ==
    /\ [][lastOp'.name \in {"fetchRejected", "bodyFailed"}
             => containers' = containers]_vars
    /\ [](\A i \in 1..Len(calls) :
            calls[i].reason \in {"fetch", "body"} =>
                /\ calls[i].phase = "failed"
                /\ ~InSeq(completed, i))

C10_Witness ==
    \E i, j \in 1..Len(calls) :
        /\ calls[i].phase = "failed" /\ calls[i].reason = "body"
        /\ calls[i].target = "stage"
        /\ calls[j].phase = "written" /\ calls[j].target = "stage"
        /\ containers["stage"].content = Body(calls[j].url)
        /\ lastOp.name = "bodyFailed"

====
